---------------------------- MODULE Spec2Model ----------------------------
(***************************************************************************)
(* Model of demark (src/index.js): the markdown -> html pipeline of        *)
(* Demark.parse, the frontmatter extractor of Demark.parseDocument and     *)
(* Demark.createSlug, called on the one shared instance `demark`.          *)
(*                                                                         *)
(* A JavaScript string is a sequence of one-character strings.  Every      *)
(* regular expression of the pattern table is an operator that returns     *)
(* the match the backtracking matcher finds at a given index.              *)
(***************************************************************************)
EXTENDS Integers, Sequences, FiniteSets, TLC

(***************************************************************************)
(* Bounds of the model.                                                    *)
(***************************************************************************)
\* longest body placed in a fenced code block
MaxBody == 3
\* longest body placed between single backticks
MaxInline == 2
\* longest plain markdown text given to parse
MaxLine == 3
\* most "key: value" lines between the frontmatter delimiters
MaxLines == 1
\* longest text given to createSlug
MaxSlug == 4

(***************************************************************************)
(* Characters and strings.                                                 *)
(***************************************************************************)
UpperSeq == <<"A","B","C","D","E","F","G","H","I","J","K","L","M",
              "N","O","P","Q","R","S","T","U","V","W","X","Y","Z">>
LowerSeq == <<"a","b","c","d","e","f","g","h","i","j","k","l","m",
              "n","o","p","q","r","s","t","u","v","w","x","y","z">>
DigitSeq == <<"0","1","2","3","4","5","6","7","8","9">>

Range(f) == {f[i] : i \in DOMAIN f}

\* \w of a JavaScript regular expression
IsWord(c) == c \in Range(UpperSeq) \cup Range(LowerSeq) \cup Range(DigitSeq) \cup {"_"}
\* \s of a JavaScript regular expression, and what String.prototype.trim removes
IsSpace(c) == c \in {" ", "\t", "\n", "\r", "\f"}
\* what . does not match, and what ^ and $ look at under the m flag
IsLineTerminator(c) == c \in {"\n", "\r"}
IsDigit(c) == c \in Range(DigitSeq)

NotLineTerminator(c) == ~IsLineTerminator(c)
IsHash(c) == c = "#"
IsDash(c) == c = "-"
NotRBracket(c) == c # "]"
NotRParen(c) == c # ")"
\* the backtick, which a TLA+ string cannot hold
Backtick == "grave"
NotBacktick(c) == c # Backtick

SetMin(S) == CHOOSE m \in S : \A n \in S : m <= n
SetMax(S) == CHOOSE m \in S : \A n \in S : m >= n

\* a character class of the patterns, by name
InClass(class, c) ==
  CASE class = "hash" -> IsHash(c)
    [] class = "dash" -> IsDash(c)
    [] class = "space" -> IsSpace(c)
    [] class = "word" -> IsWord(c)
    [] class = "digit" -> IsDigit(c)
    [] class = "notLineTerminator" -> NotLineTerminator(c)
    [] class = "notRBracket" -> NotRBracket(c)
    [] class = "notRParen" -> NotRParen(c)
    [] class = "notBacktick" -> NotBacktick(c)
\* the index after the longest run of characters of the class that starts at i
RunEnd(s, i, class) ==
  LET stops == {j \in i..Len(s) : ~InClass(class, s[j])}
  IN  IF stops = {} THEN Len(s) + 1 ELSE SetMin(stops)

\* whether pat occurs in s at index i
OccursAt(s, i, pat) ==
  /\ i >= 1
  /\ i + Len(pat) - 1 <= Len(s)
  /\ \A k \in 1..Len(pat) : s[i + k - 1] = pat[k]

\* String.prototype.startsWith / endsWith with a one-character argument
StartsWith(s, c) == Len(s) >= 1 /\ s[1] = c
EndsWith(s, c) == Len(s) >= 1 /\ s[Len(s)] = c

\* String.prototype.trim
Trim(s) ==
  LET keep == {i \in 1..Len(s) : ~IsSpace(s[i])}
  IN  IF keep = {} THEN <<>> ELSE SubSeq(s, SetMin(keep), SetMax(keep))

\* String.prototype.slice(1, -1)
Slice1(s) == SubSeq(s, 2, Len(s) - 1)

\* String.prototype.indexOf with a one-character argument (0: not found)
IndexOf(s, c) ==
  LET at == {i \in 1..Len(s) : s[i] = c}
  IN  IF at = {} THEN 0 ELSE SetMin(at)

\* String.prototype.split with a one-character separator
RECURSIVE SplitOn(_, _)
SplitOn(s, c) ==
  LET i == IndexOf(s, c)
  IN  IF i = 0 THEN <<s>>
      ELSE <<SubSeq(s, 1, i - 1)>> \o SplitOn(SubSeq(s, i + 1, Len(s)), c)

\* Array.prototype.join
RECURSIVE Join(_, _)
Join(parts, sep) ==
  IF Len(parts) = 0 THEN <<>>
  ELSE IF Len(parts) = 1 THEN parts[1]
  ELSE parts[1] \o sep \o Join(Tail(parts), sep)

\* String.prototype.toLowerCase on the ASCII letters
ToLowerChar(c) ==
  IF c \in Range(UpperSeq)
  THEN LowerSeq[CHOOSE i \in 1..Len(UpperSeq) : UpperSeq[i] = c]
  ELSE c
ToLowerCase(s) == [i \in 1..Len(s) |-> ToLowerChar(s[i])]

(***************************************************************************)
(* The pattern table (constructor) and the state a RegExp object carries.  *)
(***************************************************************************)
PatternNames == {"frontmatter", "heading", "bold", "italic", "link", "image",
                 "codeBlock", "inlineCode", "lineBreak", "horizontalRule"}
\* the patterns written with the g flag
GlobalPatterns == PatternNames \ {"frontmatter"}
\* the table as the constructor builds it: every lastIndex is 0
FreshPatterns ==
  [n \in PatternNames |-> [global |-> n \in GlobalPatterns, lastIndex |-> 0]]

\* text.replace(rx, ...) starts by setting lastIndex of a g pattern to 0; a pattern
\* without the g flag is always matched from the start of the text
ResetLastIndex(rx) == IF rx.global THEN [rx EXCEPT !.lastIndex = 0] ELSE rx
ScanFrom(rx) == IF rx.global THEN ResetLastIndex(rx).lastIndex + 1 ELSE 1

\* what text.replace(rx, ...) leaves in rx: the exec that finds no further match
\* sets lastIndex of a g pattern back to 0 (lastEnd: where the last match ended)
AfterReplaceKeepIndex(rx, lastEnd) ==
  IF rx.global THEN [rx EXCEPT !.lastIndex = lastEnd] ELSE rx
AfterReplace(rx, lastEnd) ==
  IF rx.global THEN [rx EXCEPT !.lastIndex = 0] ELSE rx

(***************************************************************************)
(* The text the passes write.                                              *)
(***************************************************************************)
HOpen(level) == <<"<", "h", DigitSeq[level + 1], ">">>
HClose(level) == <<"<", "/", "h", DigitSeq[level + 1], ">">>
StrongOpen == <<"<","s","t","r","o","n","g",">">>
StrongClose == <<"<","/","s","t","r","o","n","g",">">>
EmOpen == <<"<","e","m",">">>
EmClose == <<"<","/","e","m",">">>
AOpen1 == <<"<","a"," ","h","r","e","f","=","\"">>
AOpen2 == <<"\"",">">>
AClose == <<"<","/","a",">">>
ImgOpen == <<"<","i","m","g"," ","s","r","c","=","\"">>
ImgMid == <<"\""," ","a","l","t","=","\"">>
ImgClose == <<"\""," ","/",">">>
PreCodeOpen == <<"<","p","r","e",">","<","c","o","d","e">>
LanguageAttr == <<" ","c","l","a","s","s","=","\"","l","a","n","g","u","a","g","e","-">>
PreCodeClose == <<"<","/","c","o","d","e",">","<","/","p","r","e",">">>
CodeOpen == <<"<","c","o","d","e",">">>
CodeClose == <<"<","/","c","o","d","e",">">>
Hr == <<"<","h","r"," ","/",">">>
POpen == <<"<","p",">">>
PClose == <<"<","/","p",">">>
Fence == <<Backtick, Backtick, Backtick>>
Dashes == <<"-","-","-">>
Stars == <<"*","*">>

NoMatch == [ok |-> FALSE, end |-> 0, out |-> <<>>]
Match(end, out) == [ok |-> TRUE, end |-> end, out |-> out]

\* String.prototype.replace with a g pattern: M(s, i) is the match at index i and what
\* replaces it; every match is replaced, left to right, from index i
RECURSIVE ReplaceAll(_, _, _)
ReplaceAll(M(_, _), s, i) ==
  LET at == {j \in i..Len(s) : M(s, j).ok}
  IN  IF at = {} THEN SubSeq(s, i, Len(s))
      ELSE LET j == SetMin(at)
               m == M(s, j)
           IN  SubSeq(s, i, j - 1) \o m.out \o ReplaceAll(M, s, m.end)

\* the lastIndex the last match of a g pattern sets (0: no match)
RECURSIVE LastMatchEnd(_, _, _, _)
LastMatchEnd(M(_, _), s, i, last) ==
  LET at == {j \in i..Len(s) : M(s, j).ok}
  IN  IF at = {} THEN last
      ELSE LET m == M(s, SetMin(at))
           IN  LastMatchEnd(M, s, m.end, m.end - 1)

(***************************************************************************)
(* The patterns: the match each finds at index i, with its replacement.    *)
(***************************************************************************)
\* ^ under the m flag
AtLineStart(s, i) == i = 1 \/ IsLineTerminator(s[i - 1])
\* $ under the m flag
AtLineEnd(s, i) == i = Len(s) + 1 \/ IsLineTerminator(s[i])

\* heading: /^(#{1,6})\s+(.+)/gm, replaced by <hN>content.trim()</hN>.
\* The hashes are the whole run (a shorter one is followed by a hash, not by \s);
\* \s+ is greedy and gives back until one character that is no line terminator follows
HeadingMatch(s, i) ==
  IF ~(AtLineStart(s, i) /\ s[i] = "#") THEN NoMatch
  ELSE LET h == RunEnd(s, i, "hash")
           level == h - i
           w == RunEnd(s, h, "space")
           starts == {q \in (h + 1)..w : q <= Len(s) /\ ~IsLineTerminator(s[q])}
       IN  IF level > 6 \/ starts = {} THEN NoMatch
           ELSE LET q == SetMax(starts)
                    e == RunEnd(s, q, "notLineTerminator")
                IN  Match(e, HOpen(level) \o Trim(SubSeq(s, q, e - 1)) \o HClose(level))

\* [text](url) at index i: the indices of ] and ), or 0 when there is no match
BracketEnd(s, i) ==
  LET a == RunEnd(s, i + 1, "notRBracket")
  IN  IF a <= Len(s) /\ a + 1 <= Len(s) /\ s[a + 1] = "(" THEN a ELSE 0
ParenEnd(s, a) ==
  LET b == RunEnd(s, a + 2, "notRParen")
  IN  IF b <= Len(s) /\ b > a + 2 THEN b ELSE 0

\* image: /!\[([^\]]*)\]\(([^)]+)\)/g, replaced by <img src="$2" alt="$1" />
ImageMatch(s, i) ==
  IF ~(s[i] = "!" /\ i + 1 <= Len(s) /\ s[i + 1] = "[") THEN NoMatch
  ELSE LET a == BracketEnd(s, i + 1)
           b == IF a = 0 THEN 0 ELSE ParenEnd(s, a)
       IN  IF b = 0 THEN NoMatch
           ELSE Match(b + 1, ImgOpen \o SubSeq(s, a + 2, b - 1) \o ImgMid
                             \o SubSeq(s, i + 2, a - 1) \o ImgClose)

\* link: /\[([^\]]+)\]\(([^)]+)\)/g, replaced by <a href="$2">$1</a>
LinkMatch(s, i) ==
  IF s[i] # "[" THEN NoMatch
  ELSE LET a == BracketEnd(s, i)
           b == IF a = 0 \/ a = i + 1 THEN 0 ELSE ParenEnd(s, a)
       IN  IF b = 0 THEN NoMatch
           ELSE Match(b + 1, AOpen1 \o SubSeq(s, a + 2, b - 1) \o AOpen2
                             \o SubSeq(s, i + 1, a - 1) \o AClose)

\* _escapeHtml: the htmlEntities table
EscapeCharNoQuote(c) ==
  CASE c = "&" -> <<"&","a","m","p",";">>
    [] c = "<" -> <<"&","l","t",";">>
    [] c = ">" -> <<"&","g","t",";">>
    [] c = "\"" -> <<"&","q","u","o","t",";">>
    [] OTHER -> <<c>>
EscapeChar(c) ==
  CASE c = "&" -> <<"&","a","m","p",";">>
    [] c = "<" -> <<"&","l","t",";">>
    [] c = ">" -> <<"&","g","t",";">>
    [] c = "\"" -> <<"&","q","u","o","t",";">>
    [] c = "'" -> <<"&","#","3","9",";">>
    [] OTHER -> <<c>>
\* _escapeHtml: text.replace(/[&<>"']/g, char => htmlEntities[char])
RECURSIVE EscapeHtml(_)
EscapeHtml(text) ==
  IF text = <<>> THEN <<>> ELSE EscapeChar(Head(text)) \o EscapeHtml(Tail(text))

\* the first index >= from where the closing fence stands (0: none)
FindFence(s, from) ==
  LET at == {f \in from..Len(s) : OccursAt(s, f, Fence)}
  IN  IF at = {} THEN 0 ELSE SetMin(at)

\* codeBlock: /```(\w+)?\n?([\s\S]*?)\n?```/g, replaced by
\* <pre><code class="language-$1">escapeHtml($2.trim())</code></pre>.
\* (\w+)? and \n? are greedy; giving back does not help, the text they give back holds
\* no fence.  The lazy body ends before the first closing fence, and before the
\* newline in front of it when there is one
CodeBlockMatch(s, i) ==
  IF ~OccursAt(s, i, Fence) THEN NoMatch
  ELSE LET le == RunEnd(s, i + 3, "word")
           lang == SubSeq(s, i + 3, le - 1)
           start == IF le <= Len(s) /\ s[le] = "\n" THEN le + 1 ELSE le
           f == FindFence(s, start)
           e == IF f - 1 >= start /\ s[f - 1] = "\n" THEN f - 1 ELSE f
           language == IF lang # <<>> THEN LanguageAttr \o lang \o <<"\"">> ELSE <<>>
       IN  IF f = 0 THEN NoMatch
           ELSE Match(f + 3, PreCodeOpen \o language \o <<">">>
                             \o EscapeHtml(Trim(SubSeq(s, start, e - 1))) \o PreCodeClose)

\* inlineCode: /`([^`]+)`/g, replaced by <code>$1</code>
InlineCodeMatch(s, i) ==
  IF s[i] # Backtick THEN NoMatch
  ELSE LET b == RunEnd(s, i + 1, "notBacktick")
       IN  IF b <= Len(s) /\ b > i + 1
           THEN Match(b + 1, CodeOpen \o SubSeq(s, i + 1, b - 1) \o CodeClose)
           ELSE NoMatch

\* bold: /\*\*(.*?)\*\*/g, replaced by <strong>$1</strong>
BoldMatch(s, i) ==
  IF ~OccursAt(s, i, Stars) THEN NoMatch
  ELSE LET lineEnd == RunEnd(s, i + 2, "notLineTerminator")
           closes == {e \in (i + 2)..lineEnd : OccursAt(s, e, Stars)}
       IN  IF closes = {} THEN NoMatch
           ELSE LET e == SetMin(closes)
                IN  Match(e + 2, StrongOpen \o SubSeq(s, i + 2, e - 1) \o StrongClose)

\* italic: /_(.*?)_/g, replaced by <em>$1</em>
ItalicMatch(s, i) ==
  IF s[i] # "_" THEN NoMatch
  ELSE LET lineEnd == RunEnd(s, i + 1, "notLineTerminator")
           closes == {e \in (i + 1)..(lineEnd - 1) : s[e] = "_"}
       IN  IF closes = {} THEN NoMatch
           ELSE LET e == SetMin(closes)
                IN  Match(e + 1, EmOpen \o SubSeq(s, i + 1, e - 1) \o EmClose)

\* horizontalRule: /^---+$/gm, replaced by <hr />
HorizontalRuleMatch(s, i) ==
  IF ~(AtLineStart(s, i) /\ s[i] = "-") THEN NoMatch
  ELSE LET d == RunEnd(s, i, "dash")
       IN  IF d - i >= 3 /\ AtLineEnd(s, d) THEN Match(d, Hr) ELSE NoMatch

(***************************************************************************)
(* The passes of parse: each takes the text and the pattern it uses.       *)
(***************************************************************************)
\* text.replace(pattern, ...), M the matches of the pattern
Replace(M(_, _), text, rx) ==
  SubSeq(text, 1, ScanFrom(rx) - 1) \o ReplaceAll(M, text, ScanFrom(rx))

\* the lastIndex text.replace(pattern, ...) reaches before it resets it
LastIndexIn(M(_, _), text, rx) == LastMatchEnd(M, text, ScanFrom(rx), 0)

ParseHeadings(text, rx) == Replace(HeadingMatch, text, rx)
ParseImages(text, rx) == Replace(ImageMatch, text, rx)
ParseLinks(text, rx) == Replace(LinkMatch, text, rx)
ParseCodeBlocks(text, rx) == Replace(CodeBlockMatch, text, rx)
ParseInlineCode(text, rx) == Replace(InlineCodeMatch, text, rx)
ParseBold(text, rx) == Replace(BoldMatch, text, rx)
ParseItalic(text, rx) == Replace(ItalicMatch, text, rx)
ParseHorizontalRules(text, rx) == Replace(HorizontalRuleMatch, text, rx)

\* /\n\s*\n/ at index q: the index after the match (0: no match).  \s* is greedy and
\* gives back to the last newline of the run of white space
BlankLineEnd(s, q) ==
  IF s[q] # "\n" THEN 0
  ELSE LET w == RunEnd(s, q + 1, "space")
           nls == {k \in (q + 1)..(w - 1) : s[k] = "\n"}
       IN  IF nls = {} THEN 0 ELSE SetMax(nls) + 1

\* text.split(/\n\s*\n/): the pieces from index p on
RECURSIVE SplitParagraphs(_, _)
SplitParagraphs(s, p) ==
  LET at == {q \in p..Len(s) : BlankLineEnd(s, q) # 0}
  IN  IF at = {} THEN <<SubSeq(s, p, Len(s))>>
      ELSE LET q == SetMin(at)
           IN  <<SubSeq(s, p, q - 1)>> \o SplitParagraphs(s, BlankLineEnd(s, q))

\* the function mapped over the paragraphs
WrapParagraph(paragraph) ==
  LET trimmed == Trim(paragraph)
  IN  IF trimmed = <<>> THEN <<>>
      ELSE IF StartsWith(trimmed, "<") /\ EndsWith(trimmed, ">") THEN trimmed
      ELSE POpen \o trimmed \o PClose

\* _parseParagraphs: split, map, filter, join
ParseParagraphs(text) ==
  LET paragraphs == SplitParagraphs(text, 1)
      mapped == [k \in 1..Len(paragraphs) |-> WrapParagraph(paragraphs[k])]
  IN  Join(SelectSeq(mapped, LAMBDA para : para # <<>>), <<"\n", "\n">>)

\* the body of parse after its guard, on a table of patterns
Pipeline(markdown, table) ==
  LET h1 == ParseHeadings(markdown, table["heading"])
      h2 == ParseImages(h1, table["image"])
      h3 == ParseLinks(h2, table["link"])
      h4 == ParseCodeBlocks(h3, table["codeBlock"])
      h5 == ParseInlineCode(h4, table["inlineCode"])
      h6 == ParseBold(h5, table["bold"])
      h7 == ParseItalic(h6, table["italic"])
      h8 == ParseHorizontalRules(h7, table["horizontalRule"])
  IN  Trim(ParseParagraphs(h8))

(***************************************************************************)
(* Numbers: isNaN(value) and parseFloat(value) on a string.                *)
(***************************************************************************)
\* a number: a finite one is (-1)^neg * mant * 10^exp with mant not ending in 0
NoNum == [kind |-> "none", neg |-> FALSE, mant |-> 0, exp |-> 0]
Infinite(neg) == [kind |-> "infinity", neg |-> neg, mant |-> 0, exp |-> 0]
RECURSIVE Finite(_, _, _)
Finite(neg, mant, exp) ==
  IF mant = 0 THEN [kind |-> "finite", neg |-> neg, mant |-> 0, exp |-> 0]
  ELSE IF mant % 10 = 0 THEN Finite(neg, mant \div 10, exp + 1)
  ELSE [kind |-> "finite", neg |-> neg, mant |-> mant, exp |-> exp]

DigitValue(c) == (CHOOSE i \in 1..Len(DigitSeq) : DigitSeq[i] = c) - 1
RECURSIVE DigitsValue(_)
DigitsValue(ds) ==
  IF ds = <<>> THEN 0
  ELSE 10 * DigitsValue(SubSeq(ds, 1, Len(ds) - 1)) + DigitValue(ds[Len(ds)])

InfinityText == <<"I","n","f","i","n","i","t","y">>
IsSign(c) == c \in {"+", "-"}
HexDigits == Range(DigitSeq) \cup {"a","b","c","d","e","f","A","B","C","D","E","F"}
IsHexDigit(c) == c \in HexDigits
IsOctalDigit(c) == c \in {"0","1","2","3","4","5","6","7"}
IsBinaryDigit(c) == c \in {"0","1"}

\* the longest prefix of t that is a StrDecimalLiteral of ECMAScript, and its value
DecimalPrefix(t) ==
  LET signed == Len(t) >= 1 /\ IsSign(t[1])
      neg == signed /\ t[1] = "-"
      u == IF signed THEN 2 ELSE 1
      intEnd == RunEnd(t, u, "digit")
      dot == intEnd <= Len(t) /\ t[intEnd] = "."
      fracEnd == IF dot THEN RunEnd(t, intEnd + 1, "digit") ELSE intEnd
      int == SubSeq(t, u, intEnd - 1)
      frac == IF dot THEN SubSeq(t, intEnd + 1, fracEnd - 1) ELSE <<>>
      hasE == fracEnd <= Len(t) /\ t[fracEnd] \in {"e", "E"}
      eSigned == hasE /\ fracEnd + 1 <= Len(t) /\ IsSign(t[fracEnd + 1])
      eStart == IF eSigned THEN fracEnd + 2 ELSE fracEnd + 1
      eEnd == IF hasE THEN RunEnd(t, eStart, "digit") ELSE fracEnd
      hasExp == hasE /\ eEnd > eStart
      eValue == IF hasExp THEN DigitsValue(SubSeq(t, eStart, eEnd - 1)) ELSE 0
      exp == IF eSigned /\ t[fracEnd + 1] = "-" THEN 0 - eValue ELSE eValue
  IN  IF OccursAt(t, u, InfinityText)
      THEN [ok |-> TRUE, len |-> u + Len(InfinityText) - 1, num |-> Infinite(neg)]
      ELSE IF Len(int) + Len(frac) = 0 THEN [ok |-> FALSE, len |-> 0, num |-> NoNum]
      ELSE [ok |-> TRUE,
            len |-> IF hasExp THEN eEnd - 1 ELSE fracEnd - 1,
            num |-> Finite(neg, DigitsValue(int \o frac), exp - Len(frac))]

\* 0x, 0o, 0b literals, which Number() reads and parseFloat does not
IsNonDecimalLiteral(t) ==
  /\ Len(t) >= 3
  /\ t[1] = "0"
  /\ \/ t[2] \in {"x", "X"} /\ \A k \in 3..Len(t) : IsHexDigit(t[k])
     \/ t[2] \in {"o", "O"} /\ \A k \in 3..Len(t) : IsOctalDigit(t[k])
     \/ t[2] \in {"b", "B"} /\ \A k \in 3..Len(t) : IsBinaryDigit(t[k])

\* isNaN(value): whether Number(value) is NaN
IsNaNString(value) ==
  LET t == Trim(value)
  IN  ~(\/ t = <<>>
        \/ (DecimalPrefix(t).ok /\ DecimalPrefix(t).len = Len(t))
        \/ IsNonDecimalLiteral(t))
\* parseFloat(value): ok is FALSE for NaN
ParseFloat(value) == DecimalPrefix(Trim(value))

(***************************************************************************)
(* The frontmatter extractor.                                              *)
(***************************************************************************)
StringValue(str) ==
  [type |-> "string", str |-> str, bool |-> FALSE, num |-> NoNum, items |-> <<>>]
BooleanValue(b) ==
  [type |-> "boolean", str |-> <<>>, bool |-> b, num |-> NoNum, items |-> <<>>]
NumberValue(n) ==
  [type |-> "number", str |-> <<>>, bool |-> FALSE, num |-> n, items |-> <<>>]
ArrayValue(items) ==
  [type |-> "array", str |-> <<>>, bool |-> FALSE, num |-> NoNum, items |-> items]

TrueText == <<"t","r","u","e">>
FalseText == <<"f","a","l","s","e">>

\* (x.startsWith('"') && x.endsWith('"')) || (x.startsWith("'") && x.endsWith("'"))
HasQuotes(x) ==
  \/ StartsWith(x, "\"") /\ EndsWith(x, "\"")
  \/ StartsWith(x, "'") /\ EndsWith(x, "'")

\* the function mapped over the items of an array
ArrayItem(item) ==
  LET t == Trim(item) IN IF HasQuotes(t) THEN Slice1(t) ELSE t

\* lines 282-286: the boolean and number coercion
Coerce(value) ==
  IF value = TrueText THEN BooleanValue(TRUE)
  ELSE IF value = FalseText THEN BooleanValue(FALSE)
  ELSE IF ~IsNaNString(value) /\ ParseFloat(value).ok
       THEN NumberValue(ParseFloat(value).num)
  ELSE StringValue(value)

\* lines 255-287: the value stored for the trimmed text after the colon
FrontmatterValue(value) ==
  IF StartsWith(value, "[") /\ EndsWith(value, "]")
  THEN LET arrayContent == Trim(Slice1(value))
           parts == SplitOn(arrayContent, ",")
       IN  IF arrayContent # <<>>
           THEN ArrayValue([k \in 1..Len(parts) |-> ArrayItem(parts[k])])
           ELSE ArrayValue(<<>>)
  ELSE Coerce(IF HasQuotes(value) THEN Slice1(value) ELSE value)

\* lines.forEach: the object after the lines from index k on
RECURSIVE ForEachLine(_, _, _)
ForEachLine(lines, k, fm) ==
  IF k > Len(lines) THEN fm
  ELSE LET line == lines[k]
           colonIndex == IndexOf(line, ":")
           key == Trim(SubSeq(line, 1, colonIndex - 1))
           value == Trim(SubSeq(line, colonIndex + 1, Len(line)))
       IN  IF colonIndex = 0 THEN ForEachLine(lines, k + 1, fm)
           ELSE ForEachLine(lines, k + 1,
                  [x \in DOMAIN fm \cup {key} |->
                     IF x = key THEN FrontmatterValue(value) ELSE fm[x]])

\* the object {}
EmptyObject == [x \in {} |-> StringValue(<<>>)]

\* _parseFrontmatter
ParseFrontmatter(frontmatterContent) ==
  ForEachLine(SplitOn(Trim(frontmatterContent), "\n"), 1, EmptyObject)

\* \r?\n at index i: the index after it (0: no match)
NewlineEnd(s, i) ==
  IF i <= Len(s) /\ s[i] = "\n" THEN i + 1
  ELSE IF i + 1 <= Len(s) /\ s[i] = "\r" /\ s[i + 1] = "\n" THEN i + 2
  ELSE 0

\* frontmatter: /^---\r?\n([\s\S]*?)\r?\n---\r?\n?/ (no flag: ^ is the start of the text).
\* The lazy group ends at the first index where \r?\n--- follows; \r? and \n? after the
\* closing dashes are greedy and nothing follows them
FrontmatterMatch(s) ==
  LET start == IF OccursAt(s, 1, Dashes) THEN NewlineEnd(s, 4) ELSE 0
      closes == {e \in start..Len(s) :
                   NewlineEnd(s, e) # 0 /\ OccursAt(s, NewlineEnd(s, e), Dashes)}
  IN  IF start = 0 \/ closes = {} THEN [ok |-> FALSE, group |-> <<>>, end |-> 0]
      ELSE LET e == SetMin(closes)
               d == NewlineEnd(s, e) + 3
               r == IF d <= Len(s) /\ s[d] = "\r" THEN d + 1 ELSE d
               n == IF r <= Len(s) /\ s[r] = "\n" THEN r + 1 ELSE r
           IN  [ok |-> TRUE, group |-> SubSeq(s, start, e - 1), end |-> n]

(***************************************************************************)
(* createSlug after its guard.                                             *)
(***************************************************************************)
\* .replace(/[^\w\s-]/g, "")
RemoveSpecial(s) == SelectSeq(s, LAMBDA c : IsWord(c) \/ IsSpace(c) \/ c = "-")
IsSeparator(c) == IsSpace(c) \/ c = "_" \/ c = "-"
\* .replace(/[\s_-]/g, "-"): every separator by itself, runs not collapsed
HyphenateEach(s) == [k \in 1..Len(s) |-> IF IsSeparator(s[k]) THEN "-" ELSE s[k]]
\* .replace(/[\s_-]+/g, "-"): a hyphen for every run of separators
Hyphenate(s) ==
  LET keep == {k \in 1..Len(s) : ~(IsSeparator(s[k]) /\ k > 1 /\ IsSeparator(s[k - 1]))}
      kept == SelectSeq([k \in 1..Len(s) |-> IF k \in keep THEN <<s[k]>> ELSE <<>>],
                        LAMBDA x : x # <<>>)
  IN  [k \in 1..Len(kept) |-> IF IsSeparator(kept[k][1]) THEN "-" ELSE kept[k][1]]
\* .replace(/^-+|-+$/g, "")
StripHyphens(s) ==
  LET keep == {i \in 1..Len(s) : s[i] # "-"}
  IN  IF keep = {} THEN <<>> ELSE SubSeq(s, SetMin(keep), SetMax(keep))
Slug(text) == StripHyphens(Hyphenate(RemoveSpecial(Trim(ToLowerCase(text)))))

(***************************************************************************)
(* JavaScript values given to the public functions.                        *)
(***************************************************************************)
JsValue(type, str, num, bool) == [type |-> type, str |-> str, num |-> num, bool |-> bool]
JsString(str) == JsValue("string", str, 0, FALSE)
JsNumber(num) == JsValue("number", <<>>, num, FALSE)
JsBoolean(bool) == JsValue("boolean", <<>>, 0, bool)
JsUndefined == JsValue("undefined", <<>>, 0, FALSE)
JsNull == JsValue("null", <<>>, 0, FALSE)
JsObject == JsValue("object", <<>>, 0, FALSE)

\* !v is ~ToBoolean(v)
ToBoolean(v) ==
  CASE v.type = "string" -> v.str # <<>>
    [] v.type = "number" -> v.num # 0
    [] v.type = "boolean" -> v.bool
    [] v.type = "object" -> TRUE
    [] OTHER -> FALSE
\* typeof v
TypeOf(v) == IF v.type = "null" THEN "object" ELSE v.type

\* !markdown || typeof markdown !== "string", the guard of parse and of parseDocument
OnlyFalsy(v) == ~ToBoolean(v)
AbsentOrNotText(v) == ~ToBoolean(v) \/ TypeOf(v) # "string"

(***************************************************************************)
(* The inputs of the model.                                                *)
(***************************************************************************)
Seqs(A, n) == UNION {[1..k -> A] : k \in 0..n}

NonText == {JsUndefined, JsNull, JsNumber(42), JsNumber(0), JsBoolean(TRUE),
            JsBoolean(FALSE), JsObject}

CodeChars == {"<", ">", "&", "\"", "'", Backtick, "a", " "}
Bodies == Seqs(CodeChars, MaxBody)
InlineBodies == Seqs(CodeChars, MaxInline)
\* <script>, and the five characters _escapeHtml replaces
ScriptTag == <<"<","s","c","r","i","p","t",">">>
FiveChars == <<"&", "<", ">", "\"", "'">>
\* a fenced code block: fence, newline, body, newline, fence
Fenced(body) == Fence \o <<"\n">> \o body \o <<"\n">> \o Fence
\* inline code: the body between single backticks
Inline(body) == <<Backtick>> \o body \o <<Backtick>>

LineChars == {"#", " ", "\n", "a", "-", "*", "_"}
PlainTexts == Seqs(LineChars, MaxLine)

\* the examples of the README: a heading, bold, a rule, an image and a link
Samples ==
  { <<"#"," ","H","i","\n","\n","T"," ","*","*","b","*","*"," ","_","i","_">>,
    <<"!","[","a","]","(","s",")"," ","[","t","]","(","u",")","\n","\n","-","-","-">>,
    <<"#","#"," ","*","*","b","*","*">> }

ParseTexts ==
  {Fenced(b) : b \in Bodies \cup {ScriptTag, FiveChars}}
    \cup {Inline(b) : b \in InlineBodies \cup {ScriptTag, FiveChars}}
    \cup PlainTexts \cup Samples

RawValues ==
  { TrueText, FalseText,
    <<"\"">> \o TrueText \o <<"\"">>,
    <<"\"","4","2","\"">>,
    <<"'","4","2","'">>,
    <<"\"","a","\"">>,
    <<"4","2">>, <<"-","4",".","5">>, <<"1","e","3">>,
    InfinityText, <<"-">> \o InfinityText,
    <<"0","x","1","0">>, <<"1","2","a","b","c">>, <<>>,
    <<"[","a",","," ","\"","b","\"","]">> }
\* a line "k: value"
KeyLine(raw) == <<"k", ":", " ">> \o raw
FrontmatterLines == {KeyLine(raw) : raw \in RawValues} \cup {<<>>, <<"n","o">>}
Closers == {Dashes, Dashes \o <<"x">>, Dashes \o <<"-">>, <<"-","-">>}
Tails == {<<>>, <<"\n">>, <<"\n","#"," ","b">>}
\* a document: ---, the lines, the closing line, the rest
Document(lines, closer, tail) ==
  Dashes \o <<"\n">> \o Join(lines \o <<closer>>, <<"\n">>) \o tail
Documents ==
  {Document(lines, closer, tail) :
     lines \in Seqs(FrontmatterLines, MaxLines), closer \in Closers, tail \in Tails}

SlugChars == {"A", "b", "1", "_", "-", " ", "!"}
SlugTexts == Seqs(SlugChars, MaxSlug)

(***************************************************************************)
(* The state: the shared instance, and the call in progress.               *)
(***************************************************************************)
VARIABLES
  patterns,     \* this.patterns of the instance demark, with each lastIndex
  served,       \* whether the instance has returned from a call before
  pc,           \* where the call in progress stands ("idle": none)
  op,           \* the public function called
  arg,          \* its argument
  markdown,     \* the argument of parse
  html,         \* the local html of parse
  frontmatter,  \* the local frontmatter of parseDocument
  matched,      \* whether frontmatterMatch is not null
  rawContent,   \* the local content of parseDocument
  result        \* what the call returned, or that it threw

vars == <<patterns, served, pc, op, arg, markdown, html, frontmatter, matched, rawContent, result>>

NoResult == [outcome |-> "none", value |-> <<>>]
Return(value) == [outcome |-> "return", value |-> value]
Throw == [outcome |-> "throw", value |-> <<>>]

Init ==
  /\ patterns = FreshPatterns
  /\ served = FALSE
  /\ pc = "idle"
  /\ op = "none"
  /\ arg = JsUndefined
  /\ markdown = JsUndefined
  /\ html = <<>>
  /\ frontmatter = EmptyObject
  /\ matched = FALSE
  /\ rawContent = <<>>
  /\ result = NoResult

Call(name, v) ==
  /\ pc = "idle"
  /\ pc' = name
  /\ op' = name
  /\ arg' = v
  /\ markdown' = IF name = "parse" THEN v ELSE JsUndefined
  /\ UNCHANGED <<patterns, served, html, frontmatter, matched, rawContent, result>>

\* the exported parse(markdown)
CallParse ==
  /\ pc = "idle"
  /\ \E v \in {JsString(t) : t \in ParseTexts} \cup NonText : Call("parse", v)
\* the exported parseDocument(markdownContent)
CallParseDocument ==
  /\ pc = "idle"
  /\ \E v \in {JsString(t) : t \in Documents \cup Samples} \cup NonText :
       Call("parseDocument", v)
\* the exported createSlug(text)
CallCreateSlug ==
  /\ pc = "idle"
  /\ \E v \in {JsString(t) : t \in SlugTexts} \cup NonText : Call("createSlug", v)

\* parseDocument up to its call of this.parse(content)
ParseDocument ==
  /\ pc = "parseDocument"
  /\ IF AbsentOrNotText(arg)
     THEN /\ result' = Return(<<>>)
          /\ pc' = "done"
          /\ UNCHANGED <<patterns, markdown, frontmatter, matched, rawContent>>
     ELSE IF arg.type # "string"
     THEN \* markdownContent.match is not a function
          /\ result' = Throw
          /\ pc' = "done"
          /\ UNCHANGED <<patterns, markdown, frontmatter, matched, rawContent>>
     ELSE LET m == FrontmatterMatch(arg.str)
              content == IF m.ok THEN Trim(SubSeq(arg.str, m.end, Len(arg.str)))
                         ELSE arg.str
          IN  /\ matched' = m.ok
              /\ frontmatter' = IF m.ok THEN ParseFrontmatter(m.group) ELSE EmptyObject
              /\ rawContent' = content
              /\ markdown' = JsString(content)
              /\ patterns' = [patterns EXCEPT
                                !["frontmatter"] = AfterReplace(@, m.end - 1)]
              /\ pc' = "parse"
              /\ UNCHANGED result
  /\ UNCHANGED <<served, op, arg, html>>

\* parse: the guard and let html = markdown
Parse ==
  /\ pc = "parse"
  /\ IF AbsentOrNotText(markdown)
     THEN /\ result' = Return(<<>>)
          /\ pc' = "done"
          /\ UNCHANGED html
     ELSE IF markdown.type # "string"
     THEN \* text.replace is not a function
          /\ result' = Throw
          /\ pc' = "done"
          /\ UNCHANGED html
     ELSE /\ html' = markdown.str
          /\ pc' = "headings"
          /\ UNCHANGED result
  /\ UNCHANGED <<patterns, served, op, arg, markdown, frontmatter, matched, rawContent>>

\* html = this._parseX(html): one pass, with what replace leaves in its pattern
Pass(at, next, name, out, lastEnd) ==
  /\ pc = at
  /\ html' = out
  /\ patterns' = [patterns EXCEPT
                    ![name] = AfterReplace(@, lastEnd)]
  /\ pc' = next
  /\ UNCHANGED <<served, op, arg, markdown, frontmatter, matched, rawContent, result>>

Headings ==
  Pass("headings", "images", "heading",
       ParseHeadings(html, patterns["heading"]),
       LastIndexIn(HeadingMatch, html, patterns["heading"]))
Images ==
  Pass("images", "links", "image",
       ParseImages(html, patterns["image"]),
       LastIndexIn(ImageMatch, html, patterns["image"]))
Links ==
  Pass("links", "codeBlocks", "link",
       ParseLinks(html, patterns["link"]),
       LastIndexIn(LinkMatch, html, patterns["link"]))
CodeBlocks ==
  Pass("codeBlocks", "inlineCode", "codeBlock",
       ParseCodeBlocks(html, patterns["codeBlock"]),
       LastIndexIn(CodeBlockMatch, html, patterns["codeBlock"]))
InlineCode ==
  Pass("inlineCode", "bold", "inlineCode",
       ParseInlineCode(html, patterns["inlineCode"]),
       LastIndexIn(InlineCodeMatch, html, patterns["inlineCode"]))
Bold ==
  Pass("bold", "italic", "bold",
       ParseBold(html, patterns["bold"]),
       LastIndexIn(BoldMatch, html, patterns["bold"]))
Italic ==
  Pass("italic", "horizontalRules", "italic",
       ParseItalic(html, patterns["italic"]),
       LastIndexIn(ItalicMatch, html, patterns["italic"]))
HorizontalRules ==
  Pass("horizontalRules", "paragraphs", "horizontalRule",
       ParseHorizontalRules(html, patterns["horizontalRule"]),
       LastIndexIn(HorizontalRuleMatch, html, patterns["horizontalRule"]))

\* html = this._parseParagraphs(html); return html.trim(), and what parseDocument
\* returns with it
Paragraphs ==
  /\ pc = "paragraphs"
  /\ html' = ParseParagraphs(html)
  /\ result' = Return(Trim(html'))
  /\ pc' = "done"
  /\ UNCHANGED <<patterns, served, op, arg, markdown, frontmatter, matched, rawContent>>

\* createSlug
CreateSlug ==
  /\ pc = "createSlug"
  /\ result' = IF ~ToBoolean(arg) THEN Return(<<>>)
               ELSE IF arg.type # "string" THEN Throw  \* text.toLowerCase is not a function
               ELSE Return(Slug(arg.str))
  /\ pc' = "done"
  /\ UNCHANGED <<patterns, served, op, arg, markdown, html, frontmatter, matched, rawContent>>

\* the caller takes the result; the locals of the call are gone, the instance stays
Finish ==
  /\ pc = "done"
  /\ pc' = "idle"
  /\ op' = "none"
  /\ arg' = JsUndefined
  /\ markdown' = JsUndefined
  /\ html' = <<>>
  /\ frontmatter' = EmptyObject
  /\ matched' = FALSE
  /\ rawContent' = <<>>
  /\ result' = NoResult
  /\ served' = TRUE
  /\ UNCHANGED patterns

Next ==
  \/ CallParse \/ CallParseDocument \/ CallCreateSlug
  \/ ParseDocument \/ Parse
  \/ Headings \/ Images \/ Links \/ CodeBlocks \/ InlineCode
  \/ Bold \/ Italic \/ HorizontalRules \/ Paragraphs
  \/ CreateSlug \/ Finish

Spec == Init /\ [][Next]_vars

(***************************************************************************)
(* What the documentation says of these operations, stated over the state  *)
(* of a call that has returned (pc = "done").                              *)
(***************************************************************************)
Returned(name) == pc = "done" /\ op = name
ReturnedText(name) == Returned(name) /\ arg.type = "string" /\ arg.str # <<>>

\* how often, and whether, sub occurs in s
Count(sub, s) == Cardinality({i \in 1..Len(s) : OccursAt(s, i, sub)})
Contains(s, sub) == \E i \in 1..Len(s) : OccursAt(s, i, sub)

\* the raw value of a frontmatter line: the trimmed text after its first colon
RawValueOf(line) == Trim(SubSeq(line, IndexOf(line, ":") + 1, Len(line)))
KeyOf(line) == Trim(SubSeq(line, 1, IndexOf(line, ":") - 1))
\* the lines of the recognised block that set a key no later line sets again
BlockLines == SplitOn(Trim(FrontmatterMatch(arg.str).group), "\n")
SettingLines ==
  {k \in 1..Len(BlockLines) :
     /\ IndexOf(BlockLines[k], ":") # 0
     /\ \A j \in (k + 1)..Len(BlockLines) :
          IndexOf(BlockLines[j], ":") = 0 \/ KeyOf(BlockLines[j]) # KeyOf(BlockLines[k])}
\* a raw value wrapped in matching single or double quotes
Quoted(raw) == Len(raw) >= 2 /\ raw[1] = raw[Len(raw)] /\ raw[1] \in {"\"", "'"}
Bracketed(raw) == Len(raw) >= 2 /\ raw[1] = "[" /\ raw[Len(raw)] = "]"
\* the whole raw value is a finite decimal number
FiniteDecimal(raw) ==
  /\ raw # <<>>
  /\ DecimalPrefix(raw).ok
  /\ DecimalPrefix(raw).len = Len(raw)
  /\ DecimalPrefix(raw).num.kind = "finite"

\* C1: a frontmatter value wrapped in matching quotes is stored as the text between
\* the quotes, a plain string, never as a boolean or a number.
C1_QuotedValuesStayStrings ==
  (ReturnedText("parseDocument") /\ matched) =>
    \A k \in SettingLines :
      Quoted(RawValueOf(BlockLines[k])) =>
        /\ KeyOf(BlockLines[k]) \in DOMAIN frontmatter
        /\ frontmatter[KeyOf(BlockLines[k])] = StringValue(Slice1(RawValueOf(BlockLines[k])))

\* C2: no public operation ever throws, whatever it is given.
C2_NeverThrows == result.outcome # "throw"

\* lines of a text, and the shape the documentation gives a frontmatter block: a first
\* line that is exactly ---, zero or more lines, and a line that is exactly ---
LinesOf(t) == SplitOn(t, "\n")
FrontmatterShape(t) ==
  /\ Len(LinesOf(t)) >= 2
  /\ LinesOf(t)[1] = Dashes
  /\ \E j \in 2..Len(LinesOf(t)) : LinesOf(t)[j] = Dashes

\* C3: frontmatter is recognised exactly for the documents of that shape (the empty
\* block included, a closing line with more characters excluded); a document that is
\* not recognised gets an empty frontmatter and its whole text as content.
C3_FrontmatterRecognition ==
  ReturnedText("parseDocument") =>
    /\ matched <=> FrontmatterShape(arg.str)
    /\ ~FrontmatterShape(arg.str) => frontmatter = EmptyObject /\ rawContent = arg.str

\* the characters escaped in a code block, and their entities
Specials == {"&", "<", ">", "\"", "'"}
EntityOf(c) ==
  CASE c = "&" -> <<"&","a","m","p",";">>
    [] c = "<" -> <<"&","l","t",";">>
    [] c = ">" -> <<"&","g","t",";">>
    [] c = "\"" -> <<"&","q","u","o","t",";">>
    [] c = "'" -> <<"&","#","3","9",";">>
\* a document that is one fenced block (the body without a fence), and its body
IsFencedDoc(t) ==
  /\ Len(t) >= 8
  /\ t = Fenced(SubSeq(t, 5, Len(t) - 4))
  /\ ~Contains(SubSeq(t, 5, Len(t) - 4), Fence)
  /\ ~Contains(SubSeq(t, 5, Len(t) - 4), <<"\n">>)
FencedBody(t) == SubSeq(t, 5, Len(t) - 4)
\* a document that is one inline code span, and its body
IsInlineDoc(t) ==
  /\ Len(t) >= 3
  /\ t = Inline(SubSeq(t, 2, Len(t) - 1))
  /\ ~Contains(SubSeq(t, 2, Len(t) - 1), <<Backtick>>)
InlineBody(t) == SubSeq(t, 2, Len(t) - 1)
CodeTags == {<<"<","p","r","e",">">>, <<"<","/","p","r","e",">">>, CodeOpen, CodeClose}

\* C4: in a fenced block each of & < > " and the apostrophe is emitted as its entity and
\* none is left raw; the same text between single backticks is emitted inside <code>
\* as it was written.
C4_CodeEscapingAsymmetry ==
  Returned("parse") /\ arg.type = "string" =>
    /\ IsFencedDoc(arg.str) =>
         /\ result.outcome = "return"
         /\ StartsWith(result.value, "<") /\ OccursAt(result.value, 1, PreCodeOpen \o <<">">>)
         /\ \A c \in Specials :
              Count(EntityOf(c), result.value) = Count(<<c>>, FencedBody(arg.str))
         /\ \A i \in 1..Len(result.value) :
              /\ result.value[i] \notin {"\"", "'"}
              /\ result.value[i] = "&" =>
                   \E c \in Specials : OccursAt(result.value, i, EntityOf(c))
              /\ result.value[i] = "<" =>
                   \E tag \in CodeTags : OccursAt(result.value, i, tag)
              /\ result.value[i] = ">" =>
                   \E tag \in CodeTags : OccursAt(result.value, i - Len(tag) + 1, tag)
    /\ IsInlineDoc(arg.str) =>
         result = Return(CodeOpen \o InlineBody(arg.str) \o CodeClose)

\* a fenced block with all five characters has returned with all five entities
C4_Witness ==
  /\ Returned("parse")
  /\ arg = JsString(Fenced(FiveChars))
  /\ \A c \in Specials : Contains(result.value, EntityOf(c))

\* C5: an unquoted raw value is stored as a number exactly when the whole of it is a
\* finite decimal number; any other one (Infinity, 0x10, 12abc, the empty value)
\* is stored as the string it was written as.
C5_NumberCoercion ==
  (ReturnedText("parseDocument") /\ matched) =>
    \A k \in SettingLines :
      LET raw == RawValueOf(BlockLines[k])
          value == frontmatter[KeyOf(BlockLines[k])]
      IN  (~Quoted(raw) /\ ~Bracketed(raw) /\ raw \notin {TrueText, FalseText}) =>
            IF FiniteDecimal(raw) THEN value.type = "number"
            ELSE value = StringValue(raw)

\* C6: given an input that is absent or not a text, parse returns the empty string and
\* parseDocument an empty frontmatter, empty content and empty html; neither fails.
C6_NonTextFallback ==
  ((Returned("parse") \/ Returned("parseDocument")) /\ arg.type # "string") =>
    /\ result = Return(<<>>)
    /\ Returned("parseDocument") => frontmatter = EmptyObject /\ rawContent = <<>>

\* parseDocument(42) has returned
C6_Witness ==
  /\ Returned("parseDocument")
  /\ arg = JsNumber(42)
  /\ result.outcome = "return"

SlugAlphabet == Range(LowerSeq) \cup Range(DigitSeq) \cup {"-"}

\* C7: for a text, createSlug returns only lowercase letters, digits and hyphens, with
\* no two hyphens in a row and no hyphen at either end.
C7_SlugShape ==
  (Returned("createSlug") /\ arg.type = "string") =>
    /\ result.outcome = "return"
    /\ \A i \in 1..Len(result.value) : result.value[i] \in SlugAlphabet
    /\ ~Contains(result.value, <<"-", "-">>)
    /\ ~StartsWith(result.value, "-")
    /\ ~EndsWith(result.value, "-")

\* a text with a run of two separators has become a slug with one hyphen
C7_Witness ==
  /\ Returned("createSlug")
  /\ arg = JsString(<<"A", "_", "-", "1">>)
  /\ result = Return(<<"a", "-", "1">>)

\* C8: on the shared instance every call returns what a fresh instance returns, after
\* whatever calls came before, and every pattern is left with lastIndex 0.
C8_SharedInstanceDeterministic ==
  /\ patterns = FreshPatterns
  /\ ReturnedText("parse") => result = Return(Pipeline(arg.str, FreshPatterns))
  /\ (ReturnedText("parseDocument") /\ rawContent # <<>>) =>
       result = Return(Pipeline(rawContent, FreshPatterns))

\* parse has returned a heading on an instance that served a call before
C8_Witness ==
  /\ served
  /\ Returned("parse")
  /\ arg = JsString(<<"#", " ", "a">>)
  /\ result = Return(HOpen(1) \o <<"a">> \o HClose(1))
  /\ patterns = FreshPatterns

\* C9: single backticks in the body of a fenced block stay literal; the inline-code
\* pass adds no <code> inside the block.
C9_FencedBackticksLiteral ==
  (Returned("parse") /\ arg.type = "string" /\ IsFencedDoc(arg.str)) =>
    /\ Count(<<Backtick>>, result.value) = Count(<<Backtick>>, FencedBody(arg.str))
    /\ Count(CodeOpen, result.value) = 1

\* a line the documentation calls a heading: 1 to 6 #, at least one space, and content
IsHeadingLine(line) ==
  \E n \in 1..6 :
    /\ Len(line) >= n + 2
    /\ \A i \in 1..n : line[i] = "#"
    /\ line[n + 1] = " "
IsHashLine(line) == Len(line) \in 1..6 /\ \A i \in 1..Len(line) : line[i] = "#"
HeadingCount(out) ==
  Cardinality({i \in 1..Len(out) : \E n \in 1..6 : OccursAt(out, i, HOpen(n))})

\* C10: a heading comes only from one line of the heading shape; a line of only #
\* characters yields no heading and does not take the next line as its content.
C10_HeadingPerLine ==
  (ReturnedText("parse") /\ \A i \in 1..Len(arg.str) : arg.str[i] \in LineChars) =>
    /\ HeadingCount(result.value) =
         Cardinality({k \in 1..Len(LinesOf(arg.str)) : IsHeadingLine(LinesOf(arg.str)[k])})
    /\ IsHashLine(LinesOf(arg.str)[1]) =>
         ~\E n \in 1..6 : OccursAt(result.value, 1, HOpen(n))

=============================================================================
